---- MODULE Spec2Model ----
(***************************************************************************)
(* Model of the two Auto Typer programs of the repository:                 *)
(*   variant "qt" : src/typer.py      (AutoTyperWindow + TypingWorker)     *)
(*   variant "tk" : src/auto_typer.py (ModernAutoTyper)                    *)
(* A text is a sequence of characters; time is counted in milliseconds;    *)
(* the start delay is counted in countdown steps (50 ms slices of the      *)
(* worker's wait loop in typer.py, 1000 ms timer ticks in auto_typer.py).  *)
(* The text buffer and the settings widgets are state: they are chosen in  *)
(* Init and are not edited while the model runs.                           *)
(***************************************************************************)
EXTENDS Integers, Sequences, FiniteSets, TLC

\* ------------------------------------------------------------ characters
TAB == "TAB"
NL == "NL"
SP == "SP"
Whitespace == {SP, TAB, NL}

\* ------------------------------------------------------------ the inputs
\* Contents of the text buffer: the end-to-end scenarios "ab", "a\nb" and
\* "a\tb", trailing whitespace with a trailing newline, a blank line between
\* two lines, a line followed by a blank line, and two blank buffers.
Texts ==
  { <<"a", "b">>,
    <<"a", NL, "b">>,
    <<"a", TAB, "b">>,
    <<"a", SP, NL>>,
    <<"a", NL, NL, "b">>,
    <<"a", NL, NL>>,
    <<NL>>,
    <<>> }
Langs == {"text", "python"}
\* seconds per keystroke, in milliseconds
Speeds == {0, 20}
\* auto_typer.py sleeps in single uninterruptible calls of time.sleep, so
\* the speed decides no step of its typing thread: one speed stands for all
TkSpeeds == {0}
\* largest start delay, in countdown steps
MaxDelay == 2
\* a hotkey is pressed only while fewer than MaxQueue events are waiting in
\* the main thread's queue
MaxQueue == 1
\* most typing runs (pending countdowns and live threads) in flight at once
MaxRuns == 2

\* ------------------------------------------------------- string helpers
Min(a, b) == IF a < b THEN a ELSE b
Max(a, b) == IF a > b THEN a ELSE b

RECURSIVE RStripSet(_, _)
\* str.rstrip(chars)
RStripSet(s, cs) ==
  IF s # <<>> /\ s[Len(s)] \in cs
  THEN RStripSet(SubSeq(s, 1, Len(s) - 1), cs)
  ELSE s

RECURSIVE LStripSet(_, _)
\* str.lstrip(chars)
LStripSet(s, cs) ==
  IF s # <<>> /\ s[1] \in cs THEN LStripSet(Tail(s), cs) ELSE s

\* str.rstrip(), str.lstrip(), str.strip(): whitespace is stripped
RStrip(s) == RStripSet(s, Whitespace)
LStrip(s) == LStripSet(s, Whitespace)
Strip(s) == LStrip(RStrip(s))

RECURSIVE Split(_)
\* str.split("\n"): always at least one line
Split(s) ==
  IF \E i \in 1..Len(s) : s[i] = NL
  THEN LET i == CHOOSE k \in 1..Len(s) :
                  s[k] = NL /\ \A j \in 1..(k - 1) : s[j] # NL
       IN <<SubSeq(s, 1, i - 1)>> \o Split(SubSeq(s, i + 1, Len(s)))
  ELSE <<s>>

\* str.splitlines(): no line for an empty string, none after a final newline
SplitLines(s) ==
  IF s = <<>> THEN <<>>
  ELSE IF s[Len(s)] = NL THEN Split(SubSeq(s, 1, Len(s) - 1))
  ELSE Split(s)

RECURSIVE Join(_)
\* "\n".join(lines)
Join(ls) ==
  IF ls = <<>> THEN <<>>
  ELSE IF Len(ls) = 1 THEN ls[1]
  ELSE ls[1] \o <<NL>> \o Join(Tail(ls))

\* ' ' * n
Spaces(n) == [i \in 1..n |-> SP]

\* ------------------------------------------------------------ formatter
\* typer.py: TypingWorker.format_python
format_python(txt) ==
  LET lines == SplitLines(txt)
  IN Join([i \in 1..Len(lines) |-> RStrip(lines[i])])

\* typer.py: TypingWorker.format_c_style
format_c_style(txt) ==
  LET lines == SplitLines(txt)
  IN Join([i \in 1..Len(lines) |-> RStrip(lines[i])])

\* typer.py: TypingWorker.format_text
format_text(txt) == RStripSet(txt, {NL})

RECURSIVE indent_lines(_)
\* the loop of format_python_code / format_generic_code: blank lines are
\* skipped, the indentation is rebuilt from spaces
indent_lines(lines) ==
  IF lines = <<>> THEN <<>>
  ELSE LET line == lines[1]
           stripped == Strip(line)
           indent == Len(line) - Len(LStrip(line))
       IN (IF stripped # <<>> THEN <<Spaces(indent) \o stripped>> ELSE <<>>)
          \o indent_lines(Tail(lines))

\* auto_typer.py: ModernAutoTyper.format_python_code
format_python_code(txt) == Join(indent_lines(Split(txt)))

\* auto_typer.py: ModernAutoTyper.format_generic_code
format_generic_code(txt) == Join(indent_lines(Split(txt)))

\* typer.py: the language dispatch at the head of TypingWorker.run
QtFormat(lang, txt) ==
  IF lang = "python" THEN format_python(txt)
  ELSE IF lang \in {"c++", "java", "javascript", "c#"} THEN format_c_style(txt)
  ELSE format_text(txt)

\* auto_typer.py: the language dispatch at the head of type_normal_text
TkFormat(lang, txt) ==
  IF lang = "python" THEN format_python_code(txt)
  ELSE IF lang \in {"c++", "java", "javascript", "c#"}
       THEN format_generic_code(txt)
  ELSE txt

\* typer.py: the lines run() types, text.split("\n") of the formatted buffer,
\* tabulated over the inputs
QtLines == [lang \in Langs, txt \in Texts |-> Split(QtFormat(lang, txt))]

\* auto_typer.py: the lines type_normal_text types, text.split('\n') of the
\* formatted text; start_typing passes the stripped buffer
TkLines ==
  [lang \in Langs, txt \in Texts |-> Split(TkFormat(lang, Strip(txt)))]

\* -------------------------------------------------------- hotkey strings
\* A hotkey string is a sequence of atoms: the words below, spaces (SP) and
\* the punctuation "+", "<", ">".  A word is one unit of upper or lower case
\* letters; Lower and Cap give its lower-case and its capitalized spelling.
\* str.lower() of an atom
Lower(a) ==
  CASE a \in {"Ctrl", "CTRL"} -> "ctrl"
    [] a = "Control" -> "control"
    [] a = "Shift" -> "shift"
    [] a = "Alt" -> "alt"
    [] a = "Win" -> "win"
    [] a = "S" -> "s"
    [] a = "X" -> "x"
    [] OTHER -> a

\* the atom with its first letter in upper case and the rest in lower case
Cap(a) ==
  CASE Lower(a) = "ctrl" -> "Ctrl"
    [] Lower(a) = "control" -> "Control"
    [] Lower(a) = "shift" -> "Shift"
    [] Lower(a) = "alt" -> "Alt"
    [] Lower(a) = "win" -> "Win"
    [] Lower(a) = "s" -> "S"
    [] Lower(a) = "x" -> "X"
    [] OTHER -> a

\* str.lower()
LowerStr(s) == [k \in DOMAIN s |-> Lower(s[k])]

\* str.capitalize(): the first character in upper case, all others in lower
\* case; a string that starts with a space or a sign keeps it
Capitalize(s) ==
  IF s = <<>> THEN s ELSE <<Cap(s[1])>> \o LowerStr(Tail(s))

RECURSIVE SplitPlus(_)
\* str.split("+"): always at least one part
SplitPlus(s) ==
  IF \E i \in 1..Len(s) : s[i] = "+"
  THEN LET i == CHOOSE k \in 1..Len(s) :
                  s[k] = "+" /\ \A j \in 1..(k - 1) : s[j] # "+"
       IN <<SubSeq(s, 1, i - 1)>> \o SplitPlus(SubSeq(s, i + 1, Len(s)))
  ELSE <<s>>

RECURSIVE JoinWith(_, _)
\* sep.join(parts)
JoinWith(parts, sep) ==
  IF parts = <<>> THEN <<>>
  ELSE IF Len(parts) = 1 THEN parts[1]
  ELSE parts[1] \o sep \o JoinWith(Tail(parts), sep)

\* str.replace(c, '') for each c of cs
Without(s, cs) == SelectSeq(s, LAMBDA a : a \notin cs)

\* typer.py: pretty_hotkey_display
pretty_hotkey_display(hk_text) ==
  LET parts == SplitPlus(hk_text)
  IN JoinWith([k \in DOMAIN parts |-> Capitalize(parts[k])], <<"+">>)

\* typer.py: to_pynput_hotkey; err stands for the ValueError it raises
to_pynput_hotkey(hk_text) ==
  LET raw == SplitPlus(hk_text)
      kept == SelectSeq(raw, LAMBDA q : Strip(q) # <<>>)
      parts == [k \in DOMAIN kept |-> LowerStr(Strip(kept[k]))]
      conv(q) == IF q \in {<<"ctrl">>, <<"control">>} THEN <<"<", "ctrl", ">">>
                 ELSE IF q = <<"alt">> THEN <<"<", "alt", ">">>
                 ELSE IF q = <<"shift">> THEN <<"<", "shift", ">">>
                 ELSE <<"<">> \o q \o <<">">>
  IN IF Len(parts) = 0 THEN [err |-> TRUE, pyn |-> <<>>]
     ELSE IF Len(parts) = 1 THEN [err |-> FALSE, pyn |-> parts[1]]
     ELSE [err |-> FALSE,
           pyn |-> JoinWith([k \in DOMAIN parts |->
                               IF k < Len(parts) THEN conv(parts[k])
                               ELSE parts[k]], <<"+">>)]

\* auto_typer.py: ModernAutoTyper.format_hotkey_for_display
format_hotkey_for_display(hotkey) == Capitalize(Without(hotkey, {"<", ">"}))

\* auto_typer.py: validate_hotkey of HotkeyDialog.test_hotkeys
validate_hotkey(hotkey) ==
  LET raw == SplitPlus(hotkey)
      parts == [k \in DOMAIN raw |-> LowerStr(Strip(raw[k]))]
  IN IF Len(parts) < 2 THEN [valid |-> FALSE, msg |-> "too few parts"]
     ELSE IF \E k \in 1..(Len(parts) - 1) :
               parts[k] \notin {<<"ctrl">>, <<"alt">>, <<"shift">>}
     THEN [valid |-> FALSE, msg |-> "Invalid modifier"]
     ELSE IF parts[Len(parts)] = <<>>
     THEN [valid |-> FALSE, msg |-> "Key cannot be empty"]
     ELSE [valid |-> TRUE, msg |-> "Valid"]

\* auto_typer.py: HotkeyDialog.ok_clicked, "Format for pynput": every part,
\* the key too, is put between "<" and ">"
dialog_format(hk) ==
  <<"<">> \o JoinWith(SplitPlus(hk), <<">", "+", "<">>) \o <<">">>

\* ---------------------------------------------------------------- state
VARIABLES
  variant,          \* which program runs: "qt" (typer.py) or "tk" (auto_typer.py)
  text_edit,        \* the text buffer (text_edit / text_area)
  language,         \* lang_combo / self.language
  typing_speed,     \* settings['typing_speed'] / self.typing_speed, in ms
  start_delay,      \* delay_input / self.start_delay, in countdown steps
  is_typing,        \* self.is_typing
  stop_event,       \* typer.py: self.stop_event (threading.Event)
  start_btn,        \* typer.py: start_btn.isEnabled()
  status,           \* status_label / status_var: the last status shown
  runs,             \* the typing runs: TypingWorker objects / typing threads
  timers,           \* auto_typer.py: pending root.after(1000, countdown_timer)
  mainQueue,        \* events queued to the main thread, oldest first
  hotkey_listener,  \* self.hotkey_listener: the GlobalHotKeys object, if any
  typing_thread,    \* typer.py: self.typing_thread: "none", "running", "quit"
  start_hotkey,     \* settings['start_hotkey'] / self.start_hotkey
  stop_hotkey,      \* settings['stop_hotkey'] / self.stop_hotkey
  hotkeys_enabled,  \* settings['hotkeys_enabled'] / self.hotkeys_enabled
  start_hotkey_input, \* start_hotkey_input.text() / HotkeyDialog.start_var
  stop_hotkey_input,  \* stop_hotkey_input.text() / HotkeyDialog.stop_var
  hotkey_var,       \* the hotkeys as last displayed: hotkey_var / status
  leaked,           \* listeners still running that nothing refers to
  message,          \* the last message box shown by the hotkey handlers
  boot,             \* how far __init__ has come: "init", "load", "run"
  good,             \* history: the binding of the last listener that started
  retries           \* history: registrations the last handler repeated after a refusal

hotkeys ==
  <<start_hotkey, stop_hotkey, hotkeys_enabled, start_hotkey_input,
    stop_hotkey_input, hotkey_var, leaked, message, boot, good,
    retries>>

vars ==
  <<variant, text_edit, language, typing_speed, start_delay, is_typing,
    stop_event, start_btn, status, runs, timers, mainQueue, hotkey_listener,
    typing_thread, hotkeys>>

settings ==
  <<variant, text_edit, language, typing_speed, start_delay, hotkeys>>

\* ------------------------------------------------------- hotkey listeners
\* A binding is the pair of combos of a configuration or of a listener.
Binding(a, b) == [start |-> a, stop |-> b]

\* self.hotkey_listener: set is FALSE for None; running is TRUE from a
\* successful start() to stop(); start and stop are the keys of the mapping
\* given to GlobalHotKeys
NoListener ==
  [set |-> FALSE, running |-> FALSE, start |-> <<>>, stop |-> <<>>]

Listener(b, running) ==
  [set |-> TRUE, running |-> running, start |-> b.start, stop |-> b.stop]

\* the default hotkeys: typer.py __init__, the defaults of self.settings;
\* auto_typer.py __init__ and start_hotkey_listener
Default(v) ==
  IF v = "qt"
  THEN Binding(<<"ctrl", "+", "shift", "+", "s">>,
               <<"ctrl", "+", "shift", "+", "x">>)
  ELSE Binding(<<"<", "ctrl", ">", "+", "<", "shift", ">", "+", "s">>,
               <<"<", "ctrl", ">", "+", "<", "shift", ">", "+", "x">>)

\* auto_typer.py: the text "Start: Ctrl+Shift+S | Stop: Ctrl+Shift+X"
TkDefaultDisplay ==
  Binding(<<"Ctrl", "+", "Shift", "+", "S">>,
          <<"Ctrl", "+", "Shift", "+", "X">>)

\* the mapping GlobalHotKeys gets for a configured binding: typer.py
\* converts the combos with to_pynput_hotkey, auto_typer.py passes them on
Mapping(v, b) ==
  IF v = "qt"
  THEN Binding(to_pynput_hotkey(b.start).pyn, to_pynput_hotkey(b.stop).pyn)
  ELSE b

\* the listeners the operating system holds
LiveListeners ==
  leaked \o (IF hotkey_listener.running THEN <<hotkey_listener>> ELSE <<>>)

\* the triggers of a listener: its mapping is a dict, so with equal keys the
\* second entry, the stop trigger, replaces the start trigger
Triggers(l) ==
  IF l.start = l.stop THEN {"hotkey_stop"} ELSE {"hotkey_start", "hotkey_stop"}

\* the state after construction: the default binding, registered
Constructed ==
  /\ hotkeys_enabled = TRUE
  /\ start_hotkey = Default(variant).start
  /\ stop_hotkey = Default(variant).stop
  /\ hotkey_listener =
       Listener(Mapping(variant, Binding(start_hotkey, stop_hotkey)), TRUE)
  /\ start_hotkey_input = Without(start_hotkey, {"<", ">"})
  /\ stop_hotkey_input = Without(stop_hotkey, {"<", ">"})
  /\ hotkey_var = TkDefaultDisplay
  /\ leaked = <<>>
  /\ message = "none"
  /\ boot = "run"
  /\ good = Binding(start_hotkey, stop_hotkey)
  /\ retries = 0

\* A typing run as created by start_typing / begin_typing.  pc is the
\* position of the background task; waited, li, ci, slept are its locals;
\* out is the sequence of key events it has emitted.  The remaining fields
\* record the history of the run: atBegin (the stop event was set when the
\* worker took its first step), seen (the run observed the cancellation
\* signal at a checkpoint), late (it emitted a key after that), posted (the
\* run posted its outcome to the main thread), stopped (a stop request was
\* accepted while the run was live), after (typer.py: the worker emitted a
\* key after that).
NewRun ==
  [ pc |-> "start", lines |-> <<>>, waited |-> 0, li |-> 1, ci |-> 1,
    slept |-> 0, out |-> <<>>, outcome |-> "none",
    atBegin |-> FALSE, seen |-> FALSE, late |-> FALSE, posted |-> FALSE,
    stopped |-> FALSE, after |-> FALSE ]

IsLive(r) == r.pc # "done"
\* history: a stop request was accepted while these runs were live
StopAccepted(rs) ==
  [k \in DOMAIN rs |-> [rs[k] EXCEPT !.stopped = @ \/ IsLive(rs[k])]]
LiveRuns == {i \in DOMAIN runs : IsLive(runs[i])}
Live(rs) == SelectSeq(rs, IsLive)

\* fault injection for C4: every character, the tab too, is written as text
KeyNoTab(ch) == ch

\* the key event of a character: pyautogui.press("tab") / pyautogui.write(ch)
Key(ch) == IF ch = TAB THEN "tab" ELSE ch

QueuedStarts == Len(SelectSeq(mainQueue, LAMBDA e : e.ev = "hotkey_start"))

Init ==
  /\ variant \in {"qt", "tk"}
  /\ text_edit \in Texts
  /\ language \in Langs
  /\ typing_speed \in (IF variant = "qt" THEN Speeds ELSE TkSpeeds)
  /\ start_delay \in 0..MaxDelay
  /\ is_typing = FALSE
  /\ stop_event = FALSE
  /\ start_btn = TRUE
  /\ status = "Ready"
  /\ runs = <<>>
  /\ timers = <<>>
  /\ mainQueue = <<>>
  /\ typing_thread = "none"
  /\ Constructed

\* ------------------------------------------------- typer.py: controller
\* AutoTyperWindow.start_typing: marks the session busy, disables the Start
\* button, clears the stop event, creates the worker and starts its thread
start_typing ==
  /\ is_typing' = TRUE
  /\ status' = "Preparing to type..."
  /\ start_btn' = FALSE
  /\ stop_event' = FALSE
  /\ runs' = Append(Live(runs), NewRun)
  /\ typing_thread' = "running"
  /\ UNCHANGED <<settings, timers, hotkey_listener>>

\* AutoTyperWindow.on_start_clicked
on_start_clicked ==
  IF is_typing
  THEN /\ status' = "Typing already in progress."
       /\ UNCHANGED <<settings, is_typing, stop_event, start_btn, runs,
                      timers, hotkey_listener, typing_thread>>
  ELSE IF Strip(text_edit) = <<>>
  THEN UNCHANGED <<settings, is_typing, stop_event, start_btn, status, runs,
                   timers, hotkey_listener, typing_thread>>
  ELSE start_typing

\* fault injection for C10: the stop handler sets the stop event whether or
\* not a run is in progress
on_stop_clicked_always ==
  /\ stop_event' = TRUE
  /\ status' = IF is_typing THEN "Stopping..." ELSE "No typing in progress."
  /\ runs' = IF is_typing THEN StopAccepted(runs) ELSE runs
  /\ UNCHANGED <<settings, is_typing, start_btn, timers, hotkey_listener, typing_thread>>

\* AutoTyperWindow.on_stop_clicked
on_stop_clicked ==
  IF is_typing
  THEN /\ stop_event' = TRUE
       /\ status' = "Stopping..."
       /\ runs' = StopAccepted(runs)
       /\ UNCHANGED <<settings, is_typing, start_btn, timers,
                      hotkey_listener, typing_thread>>
  ELSE /\ status' = "No typing in progress."
       /\ UNCHANGED <<settings, is_typing, stop_event, start_btn, runs,
                      timers, hotkey_listener, typing_thread>>

\* fault injection for C7: the Start button is not enabled again
toggle_ui_stuck == UNCHANGED start_btn

\* AutoTyperWindow._toggle_ui_running(False), as far as the Start button
toggle_ui_idle == start_btn' = TRUE

\* fault injection for C32: the completion handler leaves the stop event set
handle_typing_finished_set(msg) ==
  /\ is_typing' = FALSE
  /\ status' = msg
  /\ toggle_ui_idle
  /\ runs' = Live(runs)
  /\ typing_thread' = "quit"
  /\ UNCHANGED <<settings, stop_event, timers, hotkey_listener>>

\* AutoTyperWindow.handle_typing_finished; the worker that sent the signal
\* has returned from run() and is dropped; the same signal is connected to
\* typing_thread.quit
handle_typing_finished(msg) ==
  /\ is_typing' = FALSE
  /\ status' = msg
  /\ toggle_ui_idle
  /\ stop_event' = FALSE
  /\ runs' = Live(runs)
  /\ typing_thread' = "quit"
  /\ UNCHANGED <<settings, timers, hotkey_listener>>

\* fault injection for C2: the error handler leaves is_typing set
handle_typing_error_busy(err) ==
  /\ status' = err
  /\ toggle_ui_idle
  /\ stop_event' = FALSE
  /\ runs' = Live(runs)
  /\ UNCHANGED <<settings, is_typing, timers, hotkey_listener, typing_thread>>

\* AutoTyperWindow.handle_typing_error; the error signal is connected to
\* nothing else, the thread of the worker keeps running its event loop
handle_typing_error(err) ==
  /\ is_typing' = FALSE
  /\ status' = err
  /\ toggle_ui_idle
  /\ stop_event' = FALSE
  /\ runs' = Live(runs)
  /\ UNCHANGED <<settings, timers, hotkey_listener, typing_thread>>

\* a click on the Start button (enabled buttons only)
QtClickStart ==
  /\ variant = "qt"
  /\ start_btn
  /\ on_start_clicked
  /\ UNCHANGED mainQueue

\* a click on the Stop button
QtClickStop ==
  /\ variant = "qt"
  /\ on_stop_clicked
  /\ UNCHANGED mainQueue

\* fault injection for C20: a trigger that also writes the status label
\* from the listener thread
HotkeyPressedDirect(ev) ==
  /\ \E k \in DOMAIN LiveListeners : ev \in Triggers(LiveListeners[k])
  /\ Len(mainQueue) < MaxQueue
  /\ mainQueue' = Append(mainQueue, [ev |-> ev, msg |-> ""])
  /\ status' = "Hotkey pressed"
  /\ UNCHANGED <<settings, is_typing, stop_event, start_btn, runs, timers,
                 hotkey_listener, typing_thread>>

\* the listener thread: _hotkey_start_trigger / _hotkey_stop_trigger queue a
\* call into the main thread (QueuedConnection)
HotkeyPressed(ev) ==
  /\ \E k \in DOMAIN LiveListeners : ev \in Triggers(LiveListeners[k])
  /\ Len(mainQueue) < MaxQueue
  /\ mainQueue' = Append(mainQueue, [ev |-> ev, msg |-> ""])
  /\ UNCHANGED <<settings, is_typing, stop_event, start_btn, status, runs,
                 timers, hotkey_listener, typing_thread>>

QtHotkeyStart == variant = "qt" /\ HotkeyPressed("hotkey_start")
QtHotkeyStop == variant = "qt" /\ HotkeyPressed("hotkey_stop")

\* the main thread takes the oldest queued event
Head1(ev) ==
  /\ mainQueue # <<>>
  /\ Head(mainQueue).ev = ev
  /\ mainQueue' = Tail(mainQueue)

\* _hotkey_start_in_main_thread
QtDispatchHotkeyStart ==
  variant = "qt" /\ Head1("hotkey_start") /\ on_start_clicked

\* _hotkey_stop_in_main_thread
QtDispatchHotkeyStop ==
  variant = "qt" /\ Head1("hotkey_stop") /\ on_stop_clicked

\* progress.connect(self._set_status)
QtDispatchProgress ==
  /\ variant = "qt"
  /\ Head1("progress")
  /\ status' = Head(mainQueue).msg
  /\ UNCHANGED <<settings, is_typing, stop_event, start_btn, runs, timers,
                 hotkey_listener, typing_thread>>

\* finished.connect(self.handle_typing_finished)
QtDispatchFinished ==
  /\ variant = "qt"
  /\ Head1("finished")
  /\ handle_typing_finished(Head(mainQueue).msg)

\* error.connect(self.handle_typing_error)
QtDispatchError ==
  /\ variant = "qt"
  /\ Head1("error")
  /\ handle_typing_error(Head(mainQueue).msg)

\* ------------------------------------------- typer.py: TypingWorker.run
\* what a step of a background task leaves alone
TaskFrame ==
  UNCHANGED <<settings, stop_event, start_btn, status, timers, hotkey_listener, typing_thread>>

Post(ev, msg) == mainQueue' = Append(mainQueue, [ev |-> ev, msg |-> msg])
SetRun(i, r) == runs' = [runs EXCEPT ![i] = r]

\* the text of the finished signal for each way run() returns
QtMsg(outcome) ==
  CASE outcome = "StoppedBeforeStart" ->
         "Stopped before typing (user requested stop)."
    [] outcome = "StoppedDuringTyping" -> "Stopped by user during typing."
    [] outcome = "Completed" -> "Typing completed successfully."

\* self.finished.emit(msg), after which run() returns
QtFinish(i, r, outcome) ==
  /\ SetRun(i, [r EXCEPT !.pc = "done", !.outcome = outcome, !.posted = TRUE])
  /\ Post("finished", QtMsg(outcome))

\* fault injection for C6: a stop check that reports completion
QtStoppedAsCompleted(i, outcome) ==
  QtFinish(i, [runs[i] EXCEPT !.seen = TRUE], "Completed")

\* if self.stop_flag.is_set(): self.finished.emit(...); return
QtStopped(i, outcome) == QtFinish(i, [runs[i] EXCEPT !.seen = TRUE], outcome)

\* except Exception as e: self.error.emit(f"Typing error: {e}")
QtFail(i) ==
  /\ SetRun(i, [runs[i] EXCEPT !.pc = "done", !.outcome = "Failed",
                               !.posted = TRUE])
  /\ Post("error", "Typing error")

\* a key press sent to the window with focus; the emitter may raise
QtEmit(i, key, next) ==
  \/ SetRun(i, [runs[i] EXCEPT !.out = Append(@, key), !.slept = 0,
                               !.late = @ \/ runs[i].seen,
                               !.after = @ \/ runs[i].stopped, !.pc = next])
     /\ UNCHANGED mainQueue
  \/ QtFail(i)

\* the pre-formatting and the "Starting in ..." progress signal
QtRunStart(i) ==
  /\ runs[i].pc = "start"
  /\ SetRun(i, [runs[i] EXCEPT
                  !.lines = QtLines[language, text_edit],
                  !.atBegin = stop_event, !.pc = "wait"])
  /\ Post("progress", "Starting in")

\* fault injection for C12: the wait loop is left at once
QtWaitSkip(i) ==
  /\ runs[i].pc = "wait"
  /\ SetRun(i, [runs[i] EXCEPT !.pc = "line", !.li = 1])
  /\ UNCHANGED mainQueue

\* the test of the wait loop and its stop check.  The focus report that may
\* follow the loop only shows the foreground process in the status line and
\* swallows its own exceptions; it is left out.
QtWaitCheck(i) ==
  /\ runs[i].pc = "wait"
  /\ IF runs[i].waited < start_delay
     THEN IF stop_event
          THEN QtStopped(i, "StoppedBeforeStart")
          ELSE SetRun(i, [runs[i] EXCEPT !.pc = "wait_sleep"])
               /\ UNCHANGED mainQueue
     ELSE SetRun(i, [runs[i] EXCEPT !.pc = "line", !.li = 1])
          /\ UNCHANGED mainQueue

\* time.sleep(wait_step); waited += wait_step
QtWaitSleep(i) ==
  /\ runs[i].pc = "wait_sleep"
  /\ SetRun(i, [runs[i] EXCEPT !.waited = @ + 1, !.pc = "wait"])
  /\ UNCHANGED mainQueue

\* for li, line in enumerate(lines): the stop check at the head of a line;
\* after the last line the run reports completion
QtLine(i) ==
  /\ runs[i].pc = "line"
  /\ IF runs[i].li > Len(runs[i].lines)
     THEN QtFinish(i, runs[i], "Completed")
     ELSE IF stop_event
     THEN QtStopped(i, "StoppedDuringTyping")
     ELSE SetRun(i, [runs[i] EXCEPT !.pc = "char", !.ci = 1])
          /\ UNCHANGED mainQueue

\* for ch in line: the stop check before a character; at the end of the
\* line, "if li < len(lines) - 1" selects the enter key
QtChar(i) ==
  /\ runs[i].pc = "char"
  /\ IF runs[i].ci > Len(runs[i].lines[runs[i].li])
     THEN SetRun(i, IF runs[i].li < Len(runs[i].lines)
                    THEN [runs[i] EXCEPT !.pc = "enter"]
                    ELSE [runs[i] EXCEPT !.pc = "line", !.li = @ + 1])
          /\ UNCHANGED mainQueue
     ELSE IF stop_event
     THEN QtStopped(i, "StoppedDuringTyping")
     ELSE SetRun(i, [runs[i] EXCEPT !.pc = "emit"]) /\ UNCHANGED mainQueue

\* pyautogui.press("tab") / pyautogui.write(ch)
QtKey(i) ==
  /\ runs[i].pc = "emit"
  /\ QtEmit(i, Key(runs[i].lines[runs[i].li][runs[i].ci]), "sleep")

\* one slice of the sleep between keystrokes
sleep_step == 10
QtSleep(i) ==
  /\ runs[i].pc = "sleep"
  /\ IF runs[i].slept < typing_speed
     THEN IF stop_event
          THEN QtStopped(i, "StoppedDuringTyping")
          ELSE SetRun(i, [runs[i] EXCEPT
                 !.slept = @ + Min(sleep_step, typing_speed - @)])
               /\ UNCHANGED mainQueue
     ELSE SetRun(i, [runs[i] EXCEPT !.ci = @ + 1, !.pc = "char"])
          /\ UNCHANGED mainQueue

\* pyautogui.press("enter")
QtEnter(i) ==
  /\ runs[i].pc = "enter"
  /\ QtEmit(i, "enter", "nl")

\* nl_delay = max(0.001, self.speed * 0.6), in ms
nl_delay == Max(1, (typing_speed * 6) \div 10)

\* one slice of the pause after a newline
QtNl(i) ==
  /\ runs[i].pc = "nl"
  /\ IF runs[i].slept < nl_delay
     THEN IF stop_event
          THEN QtStopped(i, "StoppedDuringTyping")
          ELSE SetRun(i, [runs[i] EXCEPT !.slept = @ + sleep_step])
               /\ UNCHANGED mainQueue
     ELSE SetRun(i, [runs[i] EXCEPT !.li = @ + 1, !.pc = "line"])
          /\ UNCHANGED mainQueue

\* one step of the worker thread
QtWorker(i) ==
  /\ variant = "qt"
  /\ TaskFrame
  /\ UNCHANGED is_typing
  /\ \/ QtRunStart(i)
     \/ QtWaitCheck(i)
     \/ QtWaitSleep(i)
     \/ QtLine(i)
     \/ QtChar(i)
     \/ QtKey(i)
     \/ QtSleep(i)
     \/ QtEnter(i)
     \/ QtNl(i)

\* --------------------------------------------- auto_typer.py: controller
\* typing runs in flight: pending countdowns and live threads
InFlight == Len(timers) + Cardinality(LiveRuns)

\* status callbacks of finished threads that are still queued
QueuedStatus ==
  Len(SelectSeq(mainQueue, LAMBDA e : e.ev \in {"tk_status", "tk_error"}))

\* the model starts a run only while fewer than MaxRuns are in flight,
\* requested or waiting for their status callback
RoomForRun == InFlight + QueuedStarts + QueuedStatus < MaxRuns

\* history: a stop was requested while these countdowns were pending
StopNoted(ts) == [k \in DOMAIN ts |-> [ts[k] EXCEPT !.cdstop = TRUE]]

\* ModernAutoTyper.begin_typing; rest is the timers still pending
begin_typing(rest) ==
  /\ is_typing' = TRUE
  /\ status' = "Typing in progress... Press Stop hotkey to cancel"
  /\ runs' = Append(Live(runs), NewRun)
  /\ timers' = rest

\* ModernAutoTyper.countdown_timer
countdown_timer(delay, cd, rest) ==
  IF delay > 0
  THEN /\ status' = "Starting in"
       /\ timers' = Append(rest, [delay |-> delay - 1, cdstop |-> cd])
       /\ UNCHANGED <<is_typing, runs>>
  ELSE begin_typing(rest)

\* ModernAutoTyper.start_typing
tk_start_typing ==
  IF Strip(text_edit) = <<>>
  THEN UNCHANGED <<is_typing, status, runs, timers>>
  ELSE IF is_typing
  THEN UNCHANGED <<is_typing, status, runs, timers>>
  ELSE countdown_timer(start_delay, FALSE, timers)

\* fault injection for C11: a stop that flips is_typing instead of resetting it
stop_typing_flip ==
  /\ is_typing' = ~is_typing
  /\ status' = "Stopped by user"
  /\ timers' = StopNoted(timers)
  /\ runs' = IF is_typing THEN StopAccepted(runs) ELSE runs

\* ModernAutoTyper.stop_typing
stop_typing ==
  IF is_typing
  THEN /\ is_typing' = FALSE
       /\ status' = "Stopped by user"
       /\ timers' = StopNoted(timers)
       /\ runs' = StopAccepted(runs)
  ELSE /\ status' = "No typing in progress"
       /\ timers' = StopNoted(timers)
       /\ UNCHANGED <<is_typing, runs>>

\* what a main-thread handler of auto_typer.py leaves alone
TkFrame == UNCHANGED <<settings, stop_event, start_btn, hotkey_listener, typing_thread>>

\* a click on the Start button
TkClickStart ==
  /\ variant = "tk"
  /\ RoomForRun
  /\ tk_start_typing
  /\ TkFrame
  /\ UNCHANGED mainQueue

\* a click on the Stop button
TkClickStop ==
  /\ variant = "tk"
  /\ stop_typing
  /\ TkFrame
  /\ UNCHANGED mainQueue

\* the listener thread: on_hotkey_start / on_hotkey_stop call
\* self.root.after(0, ...)
TkHotkeyStart ==
  /\ variant = "tk"
  /\ RoomForRun
  /\ HotkeyPressed("hotkey_start")
TkHotkeyStop == variant = "tk" /\ HotkeyPressed("hotkey_stop")

\* root.after(0, self.start_typing) comes due
TkDispatchHotkeyStart ==
  variant = "tk" /\ Head1("hotkey_start") /\ tk_start_typing /\ TkFrame

\* root.after(0, self.stop_typing) comes due
TkDispatchHotkeyStop ==
  variant = "tk" /\ Head1("hotkey_stop") /\ stop_typing /\ TkFrame

\* root.after(1000, lambda: self.countdown_timer(delay - 1, text)) comes due
TkTimerFire ==
  /\ variant = "tk"
  /\ timers # <<>>
  /\ countdown_timer(Head(timers).delay, Head(timers).cdstop, Tail(timers))
  /\ TkFrame
  /\ UNCHANGED mainQueue

\* root.after(0, lambda: self.status_var.set("Typing completed ..."))
TkDispatchStatus ==
  /\ variant = "tk"
  /\ Head1("tk_status")
  /\ status' = Head(mainQueue).msg
  /\ TkFrame
  /\ UNCHANGED <<is_typing, runs, timers>>

\* root.after(0, lambda: self.status_var.set(f"Error: {str(e)}")): the
\* lambda reads e of the except clause, which Python unbinds when the clause
\* ends; the callback then raises NameError and sets no status
TkDispatchError ==
  /\ variant = "tk"
  /\ Head1("tk_error")
  /\ \/ status' = Head(mainQueue).msg
     \/ UNCHANGED status
  /\ TkFrame
  /\ UNCHANGED <<is_typing, runs, timers>>

\* -------------------------- auto_typer.py: type_text / type_normal_text
\* a key press; an exception of the emitter reaches the except clause
TkEmit(i, key, next) ==
  \/ SetRun(i, [runs[i] EXCEPT !.out = Append(@, key), !.slept = 0,
                               !.late = @ \/ runs[i].seen, !.pc = next])
  \/ SetRun(i, [runs[i] EXCEPT !.pc = "except"])

\* the language formatting at the head of type_normal_text; the text is the
\* stripped buffer start_typing passed on
TkRunStart(i) ==
  /\ runs[i].pc = "start"
  /\ SetRun(i, [runs[i] EXCEPT
                  !.lines = TkLines[language, text_edit],
                  !.pc = "line"])

\* for i, line in enumerate(lines): if not self.is_typing: break.
\* check_window_focus() returns True on every path.
TkLine(i) ==
  /\ runs[i].pc = "line"
  /\ IF runs[i].li > Len(runs[i].lines)
     THEN SetRun(i, [runs[i] EXCEPT !.pc = "finish"])
     ELSE IF ~is_typing
     THEN SetRun(i, [runs[i] EXCEPT !.seen = TRUE, !.pc = "finish"])
     ELSE SetRun(i, [runs[i] EXCEPT !.pc = "char", !.ci = 1])

\* for char in line: if not self.is_typing: break.  The break leaves the
\* inner loop only: "if i < len(lines) - 1" follows in both cases.
TkChar(i) ==
  /\ runs[i].pc = "char"
  /\ LET more == runs[i].ci <= Len(runs[i].lines[runs[i].li])
         r == [runs[i] EXCEPT !.seen = @ \/ (more /\ ~is_typing)]
     IN IF more /\ is_typing
        THEN SetRun(i, [r EXCEPT !.pc = "emit"])
        ELSE SetRun(i, IF r.li < Len(r.lines)
                       THEN [r EXCEPT !.pc = "enter"]
                       ELSE [r EXCEPT !.pc = "line", !.li = @ + 1])

\* pyautogui.press('tab') / pyautogui.write(char)
TkKey(i) ==
  /\ runs[i].pc = "emit"
  /\ TkEmit(i, Key(runs[i].lines[runs[i].li][runs[i].ci]), "sleep")

\* time.sleep(speed * 0.5) after a tab, time.sleep(speed) after a character:
\* one uninterruptible sleep; slept records its length in ms
TkSleep(i) ==
  /\ runs[i].pc = "sleep"
  /\ SetRun(i, [runs[i] EXCEPT
                  !.slept = @ + (IF runs[i].lines[runs[i].li][runs[i].ci] = TAB
                                 THEN (typing_speed * 5) \div 10
                                 ELSE typing_speed),
                  !.ci = @ + 1, !.pc = "char"])

\* pyautogui.press('enter')
TkEnter(i) ==
  /\ runs[i].pc = "enter"
  /\ TkEmit(i, "enter", "nl")

\* time.sleep(speed * 0.8): one uninterruptible sleep
TkNl(i) ==
  /\ runs[i].pc = "nl"
  /\ SetRun(i, [runs[i] EXCEPT !.slept = @ + (typing_speed * 8) \div 10,
                               !.li = @ + 1, !.pc = "line"])

\* type_text after type_normal_text returned: the completion message is
\* posted only if is_typing is still set
TkFinish(i) ==
  /\ runs[i].pc = "finish"
  /\ IF is_typing
     THEN /\ SetRun(i, [runs[i] EXCEPT !.outcome = "Completed",
                                       !.posted = TRUE, !.pc = "finally"])
          /\ Post("tk_status", "Typing completed successfully!")
     ELSE /\ SetRun(i, [runs[i] EXCEPT !.outcome = "Stopped",
                                       !.seen = TRUE, !.pc = "finally"])
          /\ UNCHANGED mainQueue

\* except Exception as e: self.root.after(0, ...)
TkExcept(i) ==
  /\ runs[i].pc = "except"
  /\ SetRun(i, [runs[i] EXCEPT !.outcome = "Failed", !.posted = TRUE,
                               !.pc = "finally"])
  /\ Post("tk_error", "Error")

\* finally: self.is_typing = False, written by the typing thread, which
\* then ends
TkFinally(i) ==
  /\ runs[i].pc = "finally"
  /\ is_typing' = FALSE
  /\ runs' = Live([runs EXCEPT ![i].pc = "done"])
  /\ UNCHANGED mainQueue

\* one step of a typing thread
TkWorker(i) ==
  /\ variant = "tk"
  /\ TaskFrame
  /\ \/ /\ UNCHANGED <<is_typing, mainQueue>>
        /\ \/ TkRunStart(i)
           \/ TkLine(i)
           \/ TkChar(i)
           \/ TkKey(i)
           \/ TkSleep(i)
           \/ TkEnter(i)
           \/ TkNl(i)
     \/ UNCHANGED is_typing /\ (TkFinish(i) \/ TkExcept(i))
     \/ TkFinally(i)

TkMain ==
  \/ TkClickStart
  \/ TkClickStop
  \/ TkDispatchHotkeyStart
  \/ TkDispatchHotkeyStop
  \/ TkTimerFire
  \/ TkDispatchStatus
  \/ TkDispatchError

TkNext ==
  \/ TkMain
  \/ TkHotkeyStart
  \/ TkHotkeyStop
  \/ \E i \in DOMAIN runs : TkWorker(i)

QtMain ==
  \/ QtClickStart
  \/ QtClickStop
  \/ QtDispatchHotkeyStart
  \/ QtDispatchHotkeyStop
  \/ QtDispatchProgress
  \/ QtDispatchFinished
  \/ QtDispatchError

QtNext ==
  \/ QtMain
  \/ QtHotkeyStart
  \/ QtHotkeyStop
  \/ \E i \in DOMAIN runs : QtWorker(i)

Next == QtNext \/ TkNext

Spec == Init /\ [][Next]_vars

\* -------------------------------------------------- the engine on its own
\* ------------------------------------------------------ hotkey handlers
\* The handlers below are written as functions of the hotkey state h, so
\* that a handler that calls another is their composition.
\* Hk is the state a handler finds: no message box is open.
Hk ==
  [ hotkey_listener |-> hotkey_listener, leaked |-> leaked,
    start_hotkey |-> start_hotkey, stop_hotkey |-> stop_hotkey,
    hotkeys_enabled |-> hotkeys_enabled, status |-> status,
    message |-> "none", good |-> good, hotkey_var |-> hotkey_var,
    retries |-> 0 ]

Put(h) ==
  /\ hotkey_listener' = h.hotkey_listener
  /\ leaked' = h.leaked
  /\ start_hotkey' = h.start_hotkey
  /\ stop_hotkey' = h.stop_hotkey
  /\ hotkeys_enabled' = h.hotkeys_enabled
  /\ status' = h.status
  /\ message' = h.message
  /\ good' = h.good
  /\ retries' = h.retries
  /\ hotkey_var' = h.hotkey_var

\* what the hotkey handlers leave alone
HotkeyFrame ==
  UNCHANGED <<variant, text_edit, language, typing_speed, start_delay,
              is_typing, stop_event, start_btn, runs, timers, mainQueue,
              typing_thread>>

\* listener.stop()
Stopped(h) == [h EXCEPT !.hotkey_listener.running = FALSE]

\* self.hotkey_listener = l: a listener that is still running when the
\* reference to it is replaced keeps running
Assign(h, l) ==
  [h EXCEPT !.hotkey_listener = l,
            !.leaked = IF h.hotkey_listener.running
                       THEN Append(@, h.hotkey_listener) ELSE @]

\* what GlobalHotKeys(mapping) and start() can do: succeed, raise in the
\* constructor, raise in start()
OsOutcomes == {"ok", "ctor", "start"}

\* fault injection for C18: the reference is dropped, the listener not stopped
stop_hotkey_listener_forget(h) ==
  IF h.hotkey_listener.set THEN Assign(h, NoListener) ELSE h

\* fault injection for C23: the listener is stopped, the reference is kept
stop_hotkey_listener_keep(h) ==
  IF h.hotkey_listener.set THEN Stopped(h) ELSE h

\* typer.py: AutoTyperWindow.stop_hotkey_listener
stop_hotkey_listener(h) ==
  IF h.hotkey_listener.set THEN Assign(Stopped(h), NoListener) ELSE h

\* typer.py: AutoTyperWindow.start_hotkey_listener
start_hotkey_listener(h, os) ==
  LET h1 == stop_hotkey_listener(h)
      start_pyn == to_pynput_hotkey(h1.start_hotkey)
      stop_pyn == to_pynput_hotkey(h1.stop_hotkey)
      mapping == Binding(start_pyn.pyn, stop_pyn.pyn)
  IN IF ~h1.hotkeys_enabled THEN h1
     ELSE IF start_pyn.err \/ stop_pyn.err
     THEN [h1 EXCEPT !.status = "Invalid hotkey format"]
     ELSE IF os = "ok"
     THEN [Assign(h1, Listener(mapping, TRUE)) EXCEPT
             !.status = "Hotkeys registered",
             !.hotkey_var = Binding(pretty_hotkey_display(h1.start_hotkey),
                                    pretty_hotkey_display(h1.stop_hotkey)),
             !.good = Binding(h1.start_hotkey, h1.stop_hotkey)]
     ELSE IF os = "start"
     THEN [Assign(h1, Listener(mapping, FALSE)) EXCEPT
             !.status = "Failed to register hotkeys"]
     ELSE [h1 EXCEPT !.status = "Failed to register hotkeys"]

\* typer.py: AutoTyperWindow.restart_hotkey_listener
restart_hotkey_listener(h, os) ==
  start_hotkey_listener(stop_hotkey_listener(h), os)

\* fault injection for C21: disabling also puts the default hotkeys back
on_hotkey_toggle_reset(h, enabled, os) ==
  LET h1 == [h EXCEPT !.hotkeys_enabled = enabled]
  IN IF enabled
     THEN [start_hotkey_listener(h1, os) EXCEPT
             !.status = "Global hotkeys enabled."]
     ELSE [stop_hotkey_listener(h1) EXCEPT
             !.start_hotkey = Default("qt").start,
             !.stop_hotkey = Default("qt").stop,
             !.status = "Global hotkeys disabled."]

\* typer.py: AutoTyperWindow.on_hotkey_toggle
on_hotkey_toggle(h, enabled, os) ==
  LET h1 == [h EXCEPT !.hotkeys_enabled = enabled]
  IN IF enabled
     THEN [start_hotkey_listener(h1, os) EXCEPT
             !.status = "Global hotkeys enabled."]
     ELSE [stop_hotkey_listener(h1) EXCEPT
             !.status = "Global hotkeys disabled."]

\* fault injection for C16: an apply that does not compare the two hotkeys
on_apply_hotkeys_unchecked(h, s, t, os) ==
  LET start_hk == LowerStr(Strip(s))
      stop_hk == LowerStr(Strip(t))
      h1 == [h EXCEPT !.start_hotkey = Strip(s), !.stop_hotkey = Strip(t)]
  IN IF start_hk = <<>> \/ stop_hk = <<>>
     THEN [h EXCEPT !.message = "Please enter both hotkeys"]
     ELSE [restart_hotkey_listener(h1, os) EXCEPT
             !.status = "Hotkeys applied",
             !.hotkey_var = Binding(pretty_hotkey_display(start_hk),
                                    pretty_hotkey_display(stop_hk))]

\* typer.py: AutoTyperWindow.on_apply_hotkeys on the input texts s and t;
\* save_settings stores the trimmed texts of the input fields again, in the
\* case the user typed them
on_apply_hotkeys(h, s, t, os) ==
  LET start_hk == LowerStr(Strip(s))
      stop_hk == LowerStr(Strip(t))
      h1 == [h EXCEPT !.start_hotkey = Strip(s), !.stop_hotkey = Strip(t)]
  IN IF start_hk = <<>> \/ stop_hk = <<>>
     THEN [h EXCEPT !.message = "Please enter both hotkeys"]
     ELSE IF start_hk = stop_hk
     THEN [h EXCEPT !.message = "Start and stop hotkeys must be different"]
     ELSE [restart_hotkey_listener(h1, os) EXCEPT
             !.status = "Hotkeys applied",
             !.hotkey_var = Binding(pretty_hotkey_display(start_hk),
                                    pretty_hotkey_display(stop_hk))]

RECURSIVE tk_start_hotkey_listener(_, _)
\* auto_typer.py: ModernAutoTyper.start_hotkey_listener, the operating
\* system refusing the next `rejects` registrations; the handler calls
\* itself after each refusal
tk_start_hotkey_listener(h, rejects) ==
  IF ~h.hotkeys_enabled THEN h
  ELSE LET h1 == IF h.hotkey_listener.set THEN Stopped(h) ELSE h
           b == Binding(h1.start_hotkey, h1.stop_hotkey)
       IN IF rejects = 0
          THEN [Assign(h1, Listener(b, TRUE)) EXCEPT !.good = b]
          ELSE tk_start_hotkey_listener(
                 [h1 EXCEPT !.start_hotkey = Default("tk").start,
                            !.stop_hotkey = Default("tk").stop,
                            !.hotkey_var = TkDefaultDisplay,
                            !.message = "Failed to register hotkeys",
                            !.retries = @ + 1],
                 rejects - 1)

\* auto_typer.py: ModernAutoTyper.restart_hotkey_listener
tk_restart_hotkey_listener(h, rejects) ==
  tk_start_hotkey_listener(
    IF h.hotkey_listener.set THEN Stopped(h) ELSE h, rejects)

\* auto_typer.py: ModernAutoTyper.toggle_hotkeys, the check box now showing
\* `enabled`
toggle_hotkeys(h, enabled, rejects) ==
  LET h1 == [h EXCEPT !.hotkeys_enabled = enabled]
  IN IF enabled
     THEN [tk_start_hotkey_listener(h1, rejects) EXCEPT
             !.status = "Global hotkeys enabled"]
     ELSE [(IF h1.hotkey_listener.set
            THEN Assign(Stopped(h1), NoListener) ELSE h1) EXCEPT
             !.status = "Global hotkeys disabled"]

\* auto_typer.py: HotkeyDialog.ok_clicked on the texts s and t: the result
\* of the dialog, ok being FALSE where an error box is shown instead
ok_clicked(s, t) ==
  LET start == LowerStr(Strip(s))
      stop == LowerStr(Strip(t))
  IN IF start = <<>> \/ stop = <<>>
     THEN [ok |-> FALSE, msg |-> "Please enter both hotkeys",
           start |-> <<>>, stop |-> <<>>]
     ELSE IF start = stop
     THEN [ok |-> FALSE, msg |-> "Start and stop hotkeys must be different",
           start |-> <<>>, stop |-> <<>>]
     ELSE [ok |-> TRUE, msg |-> "none",
           start |-> dialog_format(start), stop |-> dialog_format(stop)]

\* auto_typer.py: ModernAutoTyper.set_hotkeys, the user pressing Apply in
\* the dialog on the texts s and t and closing the dialog after an error
set_hotkeys(h, s, t, rejects) ==
  LET result == ok_clicked(s, t)
      h1 == [h EXCEPT !.start_hotkey = result.start,
                      !.stop_hotkey = result.stop,
                      !.hotkey_var =
                         Binding(format_hotkey_for_display(result.start),
                                 format_hotkey_for_display(result.stop))]
  IN IF ~result.ok THEN [h EXCEPT !.message = result.msg]
     ELSE IF h1.hotkeys_enabled THEN tk_restart_hotkey_listener(h1, rejects)
     ELSE h1

\* auto_typer.py: HotkeyDialog.test_hotkeys on the texts s and t: the
\* message box it shows
test_hotkeys(s, t) ==
  LET start == Strip(s)
      stop == Strip(t)
  IN IF start = <<>> \/ stop = <<>> THEN "Please enter both hotkeys"
     ELSE IF start = stop THEN "Start and stop hotkeys must be different"
     ELSE IF validate_hotkey(start).valid /\ validate_hotkey(stop).valid
     THEN "Both hotkeys appear to be valid"
     ELSE "Hotkey validation errors"

\* auto_typer.py: ModernAutoTyper.load_settings on the content of the
\* settings file
load_settings(h, file, rejects) ==
  LET h1 == [h EXCEPT !.start_hotkey = file.start,
                      !.stop_hotkey = file.stop,
                      !.hotkeys_enabled = file.enabled,
                      !.hotkey_var =
                         Binding(format_hotkey_for_display(file.start),
                                 format_hotkey_for_display(file.stop))]
  IN IF ~file.present THEN h
     ELSE IF h1.hotkeys_enabled THEN tk_start_hotkey_listener(h1, rejects)
     ELSE h1

\* -------------------------------------------------- hotkey configuration
\* the texts a user types into the hotkey fields
Combo ==
  [ empty |-> <<>>,
    plus |-> <<"+">>,
    ctrl_plus |-> <<"ctrl", "+">>,
    s |-> <<"s">>,
    ctrl_s |-> <<"ctrl", "+", "s">>,
    ctrl_s_upper |-> <<"Ctrl", "+", "S">>,
    control_s |-> <<"control", "+", "s">>,
    ctrl_s_spaced |-> <<"ctrl", SP, "+", SP, "s">>,
    alt_shift_x |-> <<"alt", "+", "shift", "+", "x">>,
    win_x |-> <<"win", "+", "x">> ]

\* the pairs of texts the user leaves in the start and the stop field
HotkeyInputs ==
  { <<Combo.ctrl_s, Combo.alt_shift_x>>,
    <<Combo.ctrl_s_upper, Combo.alt_shift_x>>,
    <<Combo.control_s, Combo.alt_shift_x>>,
    <<Combo.ctrl_s_spaced, Combo.alt_shift_x>>,
    <<Combo.s, Combo.alt_shift_x>>,
    <<Combo.win_x, Combo.ctrl_s>>,
    <<Combo.empty, Combo.alt_shift_x>>,
    <<Combo.plus, Combo.alt_shift_x>>,
    <<Combo.ctrl_plus, Combo.alt_shift_x>>,
    <<Combo.ctrl_s, Combo.ctrl_s>>,
    <<Combo.ctrl_s_upper, Combo.ctrl_s>>,
    <<Combo.ctrl_s, Combo.control_s>>,
    <<Combo.ctrl_s_spaced, Combo.ctrl_s>> }

\* the settings file at startup: absent, or the hotkeys an earlier session
\* saved (closeEvent saves the input fields as they are)
Files(v) ==
  { [present |-> FALSE, enabled |-> TRUE, start |-> <<>>, stop |-> <<>>] }
  \cup
  { [present |-> TRUE, enabled |-> e, start |-> a,
     stop |-> Default(v).stop] :
      e \in BOOLEAN,
      a \in IF v = "qt"
            THEN {Combo.empty, Combo.plus, Combo.ctrl_plus, Combo.ctrl_s}
            ELSE {dialog_format(Combo.ctrl_s)} }

MaxRejects == 2

HotkeyInit ==
  /\ variant \in {"qt", "tk"}
  /\ text_edit = <<>>
  /\ language = "text"
  /\ typing_speed = 0
  /\ start_delay = 0
  /\ is_typing = FALSE
  /\ stop_event = FALSE
  /\ start_btn = TRUE
  /\ status = "Ready"
  /\ runs = <<>>
  /\ timers = <<>>
  /\ mainQueue = <<>>
  /\ typing_thread = "none"
  /\ hotkey_listener = NoListener
  /\ hotkeys_enabled = TRUE
  /\ start_hotkey = Default(variant).start
  /\ stop_hotkey = Default(variant).stop
  /\ start_hotkey_input = <<>>
  /\ stop_hotkey_input = <<>>
  /\ hotkey_var = (IF variant = "qt" THEN Binding(<<>>, <<>>)
                   ELSE TkDefaultDisplay)
  /\ leaked = <<>>
  /\ message = "none"
  /\ boot = "init"
  /\ good = Binding(<<>>, <<>>)
  /\ retries = 0

\* the input fields show the configured hotkeys
ShowInputs ==
  /\ start_hotkey_input' = Without(start_hotkey', {"<", ">"})
  /\ stop_hotkey_input' = Without(stop_hotkey', {"<", ">"})

\* typer.py: AutoTyperWindow.__init__: load_settings merges the content of
\* the settings file into self.settings, then the listener is started
QtConstruct ==
  /\ variant = "qt" /\ boot = "init"
  /\ \E file \in Files("qt"), os \in OsOutcomes :
       LET h1 == IF file.present
                 THEN [Hk EXCEPT !.start_hotkey = file.start,
                                 !.stop_hotkey = file.stop,
                                 !.hotkeys_enabled = file.enabled]
                 ELSE Hk
       IN Put(IF h1.hotkeys_enabled THEN start_hotkey_listener(h1, os)
              ELSE h1)
  /\ boot' = "run"
  /\ ShowInputs
  /\ HotkeyFrame

\* auto_typer.py: ModernAutoTyper.__init__: start_hotkey_listener, then
\* load_settings
TkConstruct ==
  /\ variant = "tk" /\ boot = "init"
  /\ \E file \in Files("tk"), r1 \in 0..MaxRejects, r2 \in 0..MaxRejects :
       Put(load_settings(tk_start_hotkey_listener(Hk, r1), file, r2))
  /\ boot' = "run"
  /\ ShowInputs
  /\ HotkeyFrame

\* the user types into the two hotkey fields
EditHotkeys ==
  /\ boot = "run"
  /\ \E p \in HotkeyInputs :
       /\ <<start_hotkey_input, stop_hotkey_input>> # p
       /\ start_hotkey_input' = p[1]
       /\ stop_hotkey_input' = p[2]
  /\ UNCHANGED <<hotkey_listener, start_hotkey, stop_hotkey, hotkeys_enabled,
                 hotkey_var, leaked, message, boot, good, retries,
                 status>>
  /\ HotkeyFrame

\* the user flips the "enable global hotkeys" check box
QtToggleHotkeys ==
  /\ variant = "qt" /\ boot = "run"
  /\ \E os \in OsOutcomes : Put(on_hotkey_toggle(Hk, ~hotkeys_enabled, os))
  /\ UNCHANGED <<start_hotkey_input, stop_hotkey_input, boot>>
  /\ HotkeyFrame

\* the user presses "Apply Hotkeys"
QtApplyHotkeys ==
  /\ variant = "qt" /\ boot = "run"
  /\ \E os \in OsOutcomes :
       Put(on_apply_hotkeys(Hk, start_hotkey_input, stop_hotkey_input, os))
  /\ UNCHANGED <<start_hotkey_input, stop_hotkey_input, boot>>
  /\ HotkeyFrame

TkToggleHotkeys ==
  /\ variant = "tk" /\ boot = "run"
  /\ \E r \in 0..MaxRejects : Put(toggle_hotkeys(Hk, ~hotkeys_enabled, r))
  /\ UNCHANGED <<start_hotkey_input, stop_hotkey_input, boot>>
  /\ HotkeyFrame

\* the user presses Apply in the hotkey dialog
TkSetHotkeys ==
  /\ variant = "tk" /\ boot = "run"
  /\ \E r \in 0..MaxRejects :
       Put(set_hotkeys(Hk, start_hotkey_input, stop_hotkey_input, r))
  /\ UNCHANGED <<start_hotkey_input, stop_hotkey_input, boot>>
  /\ HotkeyFrame

\* the user presses Test in the hotkey dialog
TkTestHotkeys ==
  /\ variant = "tk" /\ boot = "run"
  /\ message' = test_hotkeys(start_hotkey_input, stop_hotkey_input)
  /\ UNCHANGED <<hotkey_listener, start_hotkey, stop_hotkey, hotkeys_enabled,
                 start_hotkey_input, stop_hotkey_input, hotkey_var, leaked,
                 boot, good, retries, status>>
  /\ HotkeyFrame

\* the user closes the window: typer.py closeEvent (with the answer to
\* "Stop and exit?" while typing), auto_typer.py on_closing; save_settings of
\* typer.py stores the trimmed texts of the input fields; the event loop
\* ends with what is queued
Close ==
  /\ boot = "run"
  /\ \E yes \in BOOLEAN :
       IF variant = "qt" /\ is_typing /\ ~yes
       THEN UNCHANGED vars
       ELSE /\ boot' = "closed"
            /\ mainQueue' = <<>>
            /\ IF variant = "qt"
               THEN /\ stop_event' = TRUE
                    /\ Put([stop_hotkey_listener(Hk) EXCEPT
                              !.start_hotkey = Strip(start_hotkey_input),
                              !.stop_hotkey = Strip(stop_hotkey_input)])
                    /\ typing_thread' = (IF typing_thread = "running"
                                         THEN "quit" ELSE typing_thread)
                    /\ UNCHANGED is_typing
               ELSE /\ is_typing' = FALSE
                    /\ Put(IF hotkey_listener.set THEN Stopped(Hk) ELSE Hk)
                    /\ UNCHANGED <<stop_event, typing_thread>>
            /\ UNCHANGED <<variant, text_edit, language, typing_speed,
                           start_delay, start_btn, runs, timers,
                           start_hotkey_input, stop_hotkey_input>>

HotkeyNext ==
  \/ Close
  \/ QtConstruct
  \/ TkConstruct
  \/ EditHotkeys
  \/ QtToggleHotkeys
  \/ QtApplyHotkeys
  \/ TkToggleHotkeys
  \/ TkSetHotkeys
  \/ TkTestHotkeys
  \/ QtHotkeyStart
  \/ QtHotkeyStop
  \/ TkHotkeyStart
  \/ TkHotkeyStop
  \/ QtDispatchHotkeyStart
  \/ QtDispatchHotkeyStop
  \/ TkDispatchHotkeyStart
  \/ TkDispatchHotkeyStop

HotkeySpec == HotkeyInit /\ [][HotkeyNext]_vars

\* TypingWorker(text, speed, delay, language, stop_event).run() applied to
\* every text of Texts, the blank ones included, with the stop event set or
\* clear when run() begins; the holder of the event may set it at any time.
\* For auto_typer.py: the thread begin_typing has started on type_text, at
\* every speed of Speeds; the countdown is not part of its engine.
EngineInit ==
  /\ variant \in {"qt", "tk"}
  /\ text_edit \in Texts
  /\ language \in Langs
  /\ typing_speed \in Speeds
  /\ start_delay \in (IF variant = "qt" THEN 0..MaxDelay ELSE {0})
  /\ is_typing = TRUE
  /\ stop_event \in (IF variant = "qt" THEN BOOLEAN ELSE {FALSE})
  /\ start_btn = (variant = "tk")
  /\ status = IF variant = "qt" THEN "Preparing to type..."
              ELSE "Typing in progress... Press Stop hotkey to cancel"
  /\ runs = <<NewRun>>
  /\ timers = <<>>
  /\ mainQueue = <<>>
  /\ typing_thread = (IF variant = "qt" THEN "running" ELSE "none")
  /\ Constructed

EngineNext ==
  \/ QtWorker(1)
  \/ QtClickStop
  \/ \E i \in DOMAIN runs : TkWorker(i)
  \/ TkClickStop

EngineSpec == EngineInit /\ [][EngineNext]_vars

\* ------------------------------------------------------------- fairness
\* The operating system schedules the typing threads, and the main thread's
\* event loop takes queued events and due timers; clicks and key presses of
\* the user are not forced.
Workers == \E i \in DOMAIN runs : QtWorker(i) \/ TkWorker(i)

Dispatch ==
  \/ QtDispatchHotkeyStart
  \/ QtDispatchHotkeyStop
  \/ QtDispatchProgress
  \/ QtDispatchFinished
  \/ QtDispatchError
  \/ TkDispatchHotkeyStart
  \/ TkDispatchHotkeyStop
  \/ TkDispatchStatus
  \/ TkDispatchError

FairSpec ==
  Spec /\ WF_vars(Workers) /\ WF_vars(Dispatch) /\ WF_vars(TkTimerFire)

\* ----------------------------------------------- vocabulary of the claims
\* the session is Idle: not typing and no run in flight
Idle == ~is_typing /\ InFlight = 0

\* the formatted text a run types
FormattedLines ==
  IF variant = "qt" THEN QtLines[language, text_edit]
  ELSE TkLines[language, text_edit]

RECURSIVE ExpectedKeys(_)
\* the key sequence of a list of lines: the characters of each line, a tab
\* as the tab key, one enter between consecutive lines
ExpectedKeys(ls) ==
  IF ls = <<>> THEN <<>>
  ELSE [k \in 1..Len(ls[1]) |->
          IF ls[1][k] = TAB THEN "tab" ELSE ls[1][k]]
       \o (IF Len(ls) > 1 THEN <<"enter">> \o ExpectedKeys(Tail(ls))
           ELSE <<>>)

FullRun == ExpectedKeys(FormattedLines)

\* the run has ended: run() has returned / type_normal_text has returned
Ended(r) == r.pc \in {"done", "finally"}

\* the main thread calls start / requestStop (button or dispatched hotkey)
StartInvoked ==
  QtClickStart \/ QtDispatchHotkeyStart \/ TkClickStart
  \/ TkDispatchHotkeyStart
StopInvoked ==
  QtClickStop \/ QtDispatchHotkeyStop \/ TkClickStop \/ TkDispatchHotkeyStop

\* ------------------------------------------------------------------- C1
\* C1: at most one Emission Engine run (a pending countdown or a live typing
\* task) is in flight at any time.
C1_AtMostOneRun == InFlight <= 1

\* ------------------------------------------------------------------- C2
\* C2: every run that is started eventually returns the session to Idle:
\* whenever is_typing is set it is eventually reset, on every exit path
\* (completion, stop during the countdown, stop during typing, an exception
\* of the key emitter).
C2_EventuallyIdle == is_typing ~> ~is_typing

\* a run stopped during typing has been taken back to Idle
C2_Witness ==
  /\ ~is_typing
  /\ runs = <<>>
  /\ status = "Stopped by user during typing."

\* ------------------------------------------------------------------- C3
\* typer.py: the worker is in its start-delay countdown
QtInCountdown(r) == r.pc \in {"wait", "wait_sleep"} /\ r.waited < start_delay

\* C3: a stop requested while a run is in its start-delay countdown, the last
\* sleep slice included, ends the run with outcome StoppedBeforeStart and no
\* key event: in typer.py a worker that is in its countdown with the stop
\* event set stays in the countdown or ends as StoppedBeforeStart with
\* nothing emitted; in auto_typer.py a countdown during which stop was
\* requested starts no typing thread.
C3_StopInCountdown ==
  [][ /\ \A i \in DOMAIN runs \cap DOMAIN runs' :
           (variant = "qt" /\ stop_event /\ QtInCountdown(runs[i]))
             => \/ QtInCountdown(runs'[i])
                \/ /\ runs'[i].outcome = "StoppedBeforeStart"
                   /\ runs'[i].out = <<>>
      /\ (TkTimerFire /\ Head(timers).cdstop) => Len(runs') <= Len(runs)
    ]_vars

\* ------------------------------------------------------------------- C4
\* the keys of a run that was not cancelled, as the claim lists them
C4_Keys(r) == r.outcome = "Completed" /\ r.out = FullRun

C5_NoKeyAfterStop == \A i \in DOMAIN runs : ~runs[i].late

\* ------------------------------------------------------------------- C6
\* an engine run with no start delay whose stop event was set when run()
\* began, and which has returned
C6_Case(r) == r.atBegin /\ start_delay = 0 /\ r.pc = "done"

C7_FailedRecovers ==
  (\E i \in DOMAIN runs : runs[i].outcome = "Failed")
    ~> (/\ ~is_typing
        /\ ~stop_event
        /\ start_btn
        /\ variant = "qt" => status = "Typing error")

\* typer.py has handled a failed run
C7_Witness ==
  /\ variant = "qt"
  /\ status = "Typing error"
  /\ ~is_typing
  /\ ~stop_event
  /\ start_btn

\* ------------------------------------------------------------------- C8
\* the main thread takes an event of one of these kinds from its queue
Takes(evs) ==
  /\ mainQueue # <<>>
  /\ Head(mainQueue).ev \in evs
  /\ mainQueue' = Tail(mainQueue)

\* C8: for every outcome of a run the completion callback leaves the session
\* Idle with the cancellation signal cleared and delivers a status string:
\* the handlers of typer.py reset is_typing and the stop event and show the
\* message of the signal; the tail of type_text in auto_typer.py resets
\* is_typing and has posted a status, which the main thread then shows.
C8_CompletionCallback ==
  [][ /\ (variant = "qt" /\ Takes({"finished", "error"}))
           => /\ ~is_typing'
              /\ ~stop_event'
              /\ status' = Head(mainQueue).msg
      /\ \A i \in DOMAIN runs :
           (variant = "tk" /\ runs[i].pc = "finally" /\ TkWorker(i))
             => ~is_typing' /\ runs[i].posted
      /\ (variant = "tk" /\ Takes({"tk_status", "tk_error"}))
           => status' = Head(mainQueue).msg
    ]_vars

\* ------------------------------------------------------------------- C9
\* C9: start issued while the session is not Idle is a no-op: it spawns
\* nothing and leaves is_typing, the cancellation signal and the run in
\* flight unchanged.
C9_StartNoOp ==
  [][ (StartInvoked /\ ~Idle)
        => UNCHANGED <<is_typing, stop_event, runs, timers>> ]_vars

\* ------------------------------------------------------------------ C10
\* C10: requestStop issued while the session is Idle is a no-op: it does not
\* set the cancellation signal and changes no session state, and a run that
\* begins starts with the signal clear.
C10_StopNoOp ==
  [][ /\ (StopInvoked /\ Idle)
           => UNCHANGED <<is_typing, stop_event, start_btn, runs, timers>>
      /\ Len(runs') > Len(runs)
           => IF variant = "qt" THEN ~stop_event' ELSE is_typing'
    ]_vars

\* stop was requested in an idle session
C10_Witness ==
  /\ Idle
  /\ ~stop_event
  /\ status \in {"No typing in progress.", "No typing in progress"}

\* ------------------------------------------------------------------ C11
\* what a requestStop leaves true of the session: typer.py has the stop
\* event set if a run is in progress, auto_typer.py has is_typing reset
AfterStop == IF variant = "qt" THEN is_typing => stop_event ELSE ~is_typing

\* the pending countdowns, without the history they carry
Countdowns == [k \in DOMAIN timers |-> timers[k].delay]

\* C11: requestStop is idempotent: every requestStop establishes AfterStop,
\* and a requestStop issued in a state where AfterStop holds (so a second one
\* in a row, Idle or with a run active) changes neither is_typing nor the
\* cancellation signal nor any run or countdown, so the outcome of the run
\* is the one a single call gives.
C11_StopIdempotent ==
  [][ StopInvoked
        => /\ AfterStop'
           /\ AfterStop
                => UNCHANGED <<is_typing, stop_event, start_btn, runs,
                               Countdowns>>
    ]_vars

\* requestStop was called twice in a row while a run was active
C11_Witness ==
  \/ /\ variant = "tk"
     /\ status = "No typing in progress"
     /\ \E i \in DOMAIN runs : runs[i].pc \in {"char", "emit", "sleep"}
  \/ /\ variant = "qt"
     /\ status = "Stopping..."
     /\ stop_event
     /\ \E i \in DOMAIN runs : runs[i].pc \in {"char", "emit", "sleep"}

\* ------------------------------------------------------------------ C12
\* C12: no key event is emitted before the whole start delay has elapsed.
\* typer.py: a worker that has emitted a key has slept every slice of its
\* wait loop.  auto_typer.py: a start schedules a countdown of start_delay
\* ticks, each tick of the timer takes one off, and a typing thread is
\* created only by the tick that finds none left (or by a start with no
\* delay).
C12_DelayBeforeKeys ==
  [][ /\ \A i \in DOMAIN runs' :
           (variant = "qt" /\ runs'[i].out # <<>>)
             => runs'[i].waited >= start_delay
      /\ variant = "tk" =>
           /\ Len(runs') > Len(runs)
                => IF Len(timers') < Len(timers)
                   THEN Head(timers).delay = 0
                   ELSE start_delay = 0
           /\ Len(timers') > Len(timers)
                => Countdowns' = Append(Countdowns, start_delay - 1)
           /\ (Len(timers') = Len(timers) /\ Countdowns' # Countdowns)
                => /\ Head(Countdowns) > 0
                   /\ Countdowns' =
                        Append(Tail(Countdowns), Head(Countdowns) - 1)
    ]_vars

\* a run with the longest start delay has typed a key without being stopped
C12_Witness ==
  \E i \in DOMAIN runs :
    /\ start_delay = MaxDelay
    /\ runs[i].out # <<>>
    /\ ~runs[i].seen

\* C13: parsing "", "+" and "ctrl+" fails: typer.py, whose start hotkey is
\* one of them, gets a ValueError from to_pynput_hotkey and so creates no
\* listener; auto_typer.py's validate_hotkey finds the text in the start
\* field invalid.
C13_EmptyTokensFail ==
  /\ ( /\ variant = "qt" /\ boot = "run"
       /\ start_hotkey \in {Combo.empty, Combo.plus, Combo.ctrl_plus} )
       => /\ to_pynput_hotkey(start_hotkey).err
          /\ ~hotkey_listener.set
  /\ ( /\ variant = "tk"
       /\ start_hotkey_input \in {Combo.empty, Combo.plus, Combo.ctrl_plus} )
       => ~validate_hotkey(start_hotkey_input).valid

\* the tokens of a hotkey text: its parts between "+", trimmed, in lower case
Tokens(t) ==
  LET raw == SplitPlus(t) IN [k \in DOMAIN raw |-> LowerStr(Strip(raw[k]))]

\* a valid hotkey text of at least two tokens
ValidCombo(t) ==
  Len(Tokens(t)) >= 2 /\ \A k \in DOMAIN Tokens(t) : Tokens(t)[k] # <<>>

\* the tokens in their order, each capitalized, joined by "+"
Rendered(t) ==
  JoinWith([k \in DOMAIN Tokens(t) |-> Capitalize(Tokens(t)[k])], <<"+">>)

\* C14: whenever the program displays its configured hotkeys and the start
\* hotkey is a valid combination of at least two tokens, the text displayed
\* for it is its tokens in order, each capitalized, joined by "+"; the text
\* depends on the tokens in lower case only, so that two inputs that differ
\* in letter case are displayed alike.
C14_RenderCapitalized ==
  ( /\ boot = "run" /\ hotkey_var.start # <<>>
    /\ ValidCombo(Without(start_hotkey, {"<", ">"})) )
    => hotkey_var.start = Rendered(Without(start_hotkey, {"<", ">"}))

\* a hotkey text all of whose tokens are non-empty
Parsable(t) == \A k \in DOMAIN Tokens(t) : Tokens(t)[k] # <<>>

\* the normalized hotkey in the encoding of the hotkey library: every
\* modifier between "<" and ">", "control" being another name of "ctrl",
\* the key as it is
EngineForm(t) ==
  LET Modifier(tok) == IF tok = <<"control">> THEN <<"ctrl">> ELSE tok
  IN JoinWith([k \in DOMAIN Tokens(t) |->
                 IF k < Len(Tokens(t))
                 THEN <<"<">> \o Modifier(Tokens(t)[k]) \o <<">">>
                 ELSE Tokens(t)[k]], <<"+">>)

\* C15: the parser splits on "+", trims and lower-cases the tokens, takes
\* all but the last as modifiers ("control" standing for "ctrl", unknown
\* modifiers kept) and accepts a single token as a bare key: in typer.py the
\* listener is given the normalized start hotkey, and auto_typer.py's
\* validate_hotkey accepts every text of non-empty tokens in the start field.
C15_ParseNormalizes ==
  /\ (variant = "qt" /\ hotkey_listener.set /\ Parsable(start_hotkey))
       => /\ ~to_pynput_hotkey(start_hotkey).err
          /\ hotkey_listener.start = EngineForm(start_hotkey)
  /\ (variant = "tk" /\ boot = "run" /\ Parsable(start_hotkey_input))
       => validate_hotkey(start_hotkey_input).valid

\* the user applies the texts of the two hotkey fields
ApplyInvoked == QtApplyHotkeys \/ TkSetHotkeys

\* two texts that name the same combination as typed: equal once trimmed
\* and put in lower case
SameCombo(a, b) ==
  LowerStr(Strip(a)) # <<>> /\ LowerStr(Strip(a)) = LowerStr(Strip(b))

C17_DistinctCombos ==
  boot = "run"
    => /\ EngineForm(Without(start_hotkey, {"<", ">"}))
            # EngineForm(Without(stop_hotkey, {"<", ">"}))
       /\ \A k \in DOMAIN LiveListeners :
            /\ LiveListeners[k].start # LiveListeners[k].stop
            /\ Triggers(LiveListeners[k]) = {"hotkey_start", "hotkey_stop"}

\* C18: the operating system holds at most one hotkey listener of the
\* program at any time: startup, settings load, the enable toggle, rebinding
\* and the retry after a refusal all stop the previous listener before they
\* start a new one.
C18_OneRegistration == Len(LiveListeners) <= 1

\* a listener for hotkeys the user applied has replaced the one of startup
C18_Witness ==
  /\ boot = "run"
  /\ Len(LiveListeners) = 1
  /\ hotkey_listener.running
  /\ Without(start_hotkey, {"<", ">"}) = Combo.ctrl_s
  /\ Without(hotkey_listener.start, {"<", ">"}) = Combo.ctrl_s
  /\ status \in {"Hotkeys applied", "Global hotkeys enabled"}

\* a handler that registers hotkeys after startup runs
Registers ==
  QtToggleHotkeys \/ QtApplyHotkeys \/ TkToggleHotkeys \/ TkSetHotkeys

\* C19: a registration that the operating system refuses does not leave the
\* program without hotkeys: after every handler that registers, with hotkeys
\* enabled and parsable, a listener is running; and where the handler
\* reported a refusal, the configured hotkeys are again those of the last
\* listener that had started.
C19_FallbackOnRejection ==
  [][ (boot = "run" /\ good # Binding(<<>>, <<>>) /\ Registers)
        => /\ ( /\ hotkeys_enabled'
                /\ variant = "qt" => /\ ~to_pynput_hotkey(start_hotkey').err
                                      /\ ~to_pynput_hotkey(stop_hotkey').err )
                => hotkey_listener'.running
           /\ ("Failed to register hotkeys" \in {status', message'})
                => Binding(start_hotkey', stop_hotkey') = good
    ]_vars

\* a trigger callback runs on the listener thread
TriggerFired ==
  QtHotkeyStart \/ QtHotkeyStop \/ TkHotkeyStart \/ TkHotkeyStop

\* C20: a trigger callback only appends its start or stop action to the
\* queue of the main thread: session state, runs, timers, the status line
\* and the button are left as they are.  The main thread later takes the
\* action from its queue and runs the handler of the Start or Stop button.
C20_TriggersOnlyPost ==
  [][ /\ TriggerFired
        => /\ \E ev \in {"hotkey_start", "hotkey_stop"} :
                mainQueue' = Append(mainQueue, [ev |-> ev, msg |-> ""])
           /\ UNCHANGED <<is_typing, stop_event, start_btn, status, runs,
                          timers, hotkey_listener, settings>>
      /\ Takes({"hotkey_start"})
        => IF variant = "qt" THEN on_start_clicked
           ELSE tk_start_typing /\ TkFrame
      /\ Takes({"hotkey_stop"})
        => IF variant = "qt" THEN on_stop_clicked
           ELSE stop_typing /\ TkFrame
    ]_vars

\* a stop trigger fired while a run was typing and waits in the queue of
\* the main thread, the session still busy
C20_Witness ==
  /\ mainQueue # <<>>
  /\ Head(mainQueue).ev = "hotkey_stop"
  /\ is_typing
  /\ \E i \in DOMAIN runs : runs[i].out # <<>> /\ ~Ended(runs[i])

\* C21: disabling the hotkeys stops every listener and leaves the configured
\* start and stop hotkeys as they are; enabling them leaves the configured
\* hotkeys as they are too and, where the operating system accepts the
\* registration, the listener that runs afterwards was given exactly the
\* configured hotkeys.
C21_DisableKeepsBinding ==
  [][ ( /\ boot = "run"
        /\ hotkeys_enabled' # hotkeys_enabled
        /\ QtToggleHotkeys \/ TkToggleHotkeys )
        => /\ ~hotkeys_enabled'
             => /\ LiveListeners' = <<>>
                /\ UNCHANGED <<start_hotkey, stop_hotkey>>
           /\ (hotkeys_enabled' /\ message' # "Failed to register hotkeys")
             => /\ UNCHANGED <<start_hotkey, stop_hotkey>>
                /\ hotkey_listener'.running
                     => Binding(hotkey_listener'.start, hotkey_listener'.stop)
                          = Mapping(variant,
                                    Binding(start_hotkey, stop_hotkey))
    ]_vars

\* hotkeys the user applied are registered again after the hotkeys were
\* disabled and enabled
C21_Witness ==
  /\ status \in {"Global hotkeys enabled.", "Global hotkeys enabled"}
  /\ hotkeys_enabled
  /\ hotkey_listener.running
  /\ Without(start_hotkey, {"<", ">"}) = Combo.control_s
  /\ Binding(hotkey_listener.start, hotkey_listener.stop)
       = Mapping(variant, Binding(start_hotkey, stop_hotkey))

\* C22: while the hotkeys are disabled, by the check box or by the value of
\* the settings file, the operating system holds no listener of the program,
\* and it holds none after the window was closed.
C22_DisabledNotLive ==
  /\ (boot = "run" /\ ~hotkeys_enabled) => LiveListeners = <<>>
  /\ boot = "closed" => LiveListeners = <<>>

\* C23: in every state of typer.py stop_hotkey_listener ends with no
\* listener, live or referenced, and with the configured hotkeys and all
\* else as they were; called again, or called with no listener, it changes
\* nothing.
C23_UnregisterIdempotent ==
  variant = "qt"
    => LET h1 == stop_hotkey_listener(Hk)
       IN /\ h1 = [Hk EXCEPT !.hotkey_listener = NoListener]
          /\ stop_hotkey_listener(h1) = h1
          /\ ~hotkey_listener.set => h1 = Hk

\* the window was closed, which calls stop_hotkey_listener, after the
\* hotkeys had been disabled, which had called it before
C23_Witness ==
  /\ variant = "qt"
  /\ boot = "closed"
  /\ ~hotkeys_enabled
  /\ status = "Global hotkeys disabled."
  /\ hotkey_listener = NoListener

\* ------------------------------------------------------------------ C24
\* C24: with the language "text" the text a run types is the content of the
\* text buffer with its trailing newline characters removed and nothing else
\* added, removed or changed.
C24_TextKeepsAllButNewlines ==
  \A i \in DOMAIN runs :
    (language = "text" /\ runs[i].lines # <<>>)
      => Join(runs[i].lines) = RStripSet(text_edit, {NL})

\* ------------------------------------------------------------------ C25
\* C25: with a code language the lines a run types are the lines of the
\* text buffer, all of them and in their order, the blank ones too, each
\* with its trailing whitespace removed and its leading whitespace kept
\* character for character.
C25_CodeKeepsLines ==
  \A i \in DOMAIN runs :
    (language # "text" /\ runs[i].lines # <<>>)
      => LET lines == SplitLines(text_edit)
         IN runs[i].lines = [k \in 1..Len(lines) |-> RStrip(lines[k])]

\* ------------------------------------------------------------------ C26
\* C26: cancellation is sticky for the run it targets: once a stop request
\* was accepted while a run was live, no step of that run's task changes
\* is_typing or the cancellation signal (the state a later run depends on),
\* and the task emits a key only while the signal is still set (the
\* emission that was under way), also when a start was issued in between.
C26_StickyCancellation ==
  [][ \A i \in DOMAIN runs :
        (runs[i].stopped /\ (QtWorker(i) \/ TkWorker(i)))
          => /\ UNCHANGED <<is_typing, stop_event>>
             /\ (Len(runs') = Len(runs) /\ runs'[i].out # runs[i].out)
                  => IF variant = "qt" THEN stop_event ELSE ~is_typing
    ]_vars

\* ------------------------------------------------------------------ C27
\* C27: is_typing is written on the main thread only: no step of a typing
\* task and no step of the hotkey listener thread changes it.
C27_MainThreadWrites ==
  [][ (Workers \/ QtHotkeyStart \/ QtHotkeyStop \/ TkHotkeyStart
       \/ TkHotkeyStop)
        => UNCHANGED is_typing ]_vars

\* ------------------------------------------------------------------ C28
\* C28: is_typing goes from true to false only in the completion callback
\* (handle_typing_finished / handle_typing_error of typer.py, the tail of
\* type_text of auto_typer.py); a requestStop leaves is_typing as it is.
C28_ResetOnlyOnCompletion ==
  [][ /\ (is_typing /\ ~is_typing')
           => \/ QtDispatchFinished
              \/ QtDispatchError
              \/ \E i \in DOMAIN runs : runs[i].pc = "finally" /\ TkWorker(i)
      /\ (is_typing /\ StopInvoked) => is_typing'
    ]_vars

\* ------------------------------------------------------------------ C29
\* C29: the keys a run has emitted when it ends, wherever it was cancelled,
\* are a prefix of the keys of the uncancelled run over the same formatted
\* text.
C29_EmittedIsPrefix ==
  \A i \in DOMAIN runs :
    Ended(runs[i])
      => /\ Len(runs[i].out) <= Len(FullRun)
         /\ runs[i].out = SubSeq(FullRun, 1, Len(runs[i].out))

\* ------------------------------------------------------------------ C30
\* C30: after the cancellation signal was set during a run, the engine
\* emits at most one further key before the run ends, at every speed and at
\* every position of the text: a worker of typer.py that has emitted a key
\* since the stop request was accepted emits no second one.
C30_OneKeyAfterStop ==
  [][ \A i \in DOMAIN runs :
        (runs[i].after /\ QtWorker(i)) => runs'[i].out = runs[i].out
    ]_vars

\* ------------------------------------------------------------------ C31
\* C31: every sleep of the engine is taken in slices of at most 10 ms with
\* the cancellation signal checked before each slice: no step of a run
\* sleeps more than sleep_step, and a run that finds the signal set where it
\* would sleep after a key sleeps no further slice.  (The countdown of
\* typer.py advances by one wait_step of 50 ms per step.)
C31_SlicedSleeps ==
  [][ \A i \in DOMAIN runs \cap DOMAIN runs' :
        /\ runs'[i].slept - runs[i].slept <= sleep_step
        /\ runs'[i].waited - runs[i].waited <= 1
        /\ (IF variant = "qt" THEN stop_event ELSE ~is_typing)
             => runs'[i].slept <= runs[i].slept
    ]_vars

\* ------------------------------------------------------------------ C36
\* C36: the sleep a run has taken when it goes on after a key is half the
\* typing speed after a tab, the typing speed after any other character,
\* and between 0.6 and 0.8 of the typing speed after the enter that ends a
\* line.
C36_SleepLengths ==
  [][ \A i \in DOMAIN runs \cap DOMAIN runs' :
        /\ (runs[i].pc = "sleep" /\ runs'[i].pc = "char")
             => IF runs[i].out[Len(runs[i].out)] = "tab"
                THEN 2 * runs'[i].slept = typing_speed
                ELSE runs'[i].slept = typing_speed
        /\ (runs[i].pc = "nl" /\ runs'[i].pc = "line")
             => /\ 6 * typing_speed <= 10 * runs'[i].slept
                /\ 10 * runs'[i].slept <= 8 * typing_speed
    ]_vars

C33_OneNotification ==
  [][ \A i \in DOMAIN runs \cap DOMAIN runs' :
        /\ Ended(runs'[i]) => runs'[i].posted
        /\ (runs[i].posted /\ (QtWorker(i) \/ TkWorker(i)))
             => UNCHANGED mainQueue
    ]_vars

\* C34: handling a refused registration ends after at most one repeated
\* registration (the fallback), also when the fallback is refused too: no
\* handler that registers repeats the registration a second time.
C34_FallbackOnce ==
  [][ (boot = "run" /\ Registers) => retries' <= 1 ]_vars

\* C35: whenever applying hotkeys ends with the report that the hotkeys were
\* applied or registered, a running listener registered for exactly the
\* configured binding exists: a parse error or a refusal by the operating
\* system is not followed by a report of success of the same apply.
C35_ReportedMeansLive ==
  [][ ( /\ boot = "run"
        /\ status' \in {"Hotkeys applied", "Hotkeys registered"}
        /\ ApplyInvoked
        /\ message' = "none" )
        => /\ hotkey_listener'.running
           /\ Binding(hotkey_listener'.start, hotkey_listener'.stop)
                = Mapping(variant, Binding(start_hotkey', stop_hotkey'))
    ]_vars

C38_FormatIdempotent ==
  \A i \in DOMAIN runs :
    runs[i].pc # "start"
      => LET format(txt) == IF variant = "qt" THEN QtFormat(language, txt)
                            ELSE TkFormat(language, txt)
         IN format(Join(runs[i].lines)) = Join(runs[i].lines)

\* C39: after every outcome of a run, the outcome Failed included, the
\* background thread of the run is told to quit: once the session is Idle
\* again no typing thread is left running, and at most one run is live at
\* any time.
C39_ThreadQuits ==
  variant = "qt" => /\ Idle => typing_thread # "running"
                    /\ Cardinality(LiveRuns) <= 1

====
